---- MODULE Spec2Model ----
(***************************************************************************)
(* A model of arbol's configuration core (internal/config/config.go) and   *)
(* of the command layer that drives it.  One behaviour is one invocation   *)
(* of the CLI: the configuration file is read and parsed (LoadFromPath),   *)
(* validated, and one operation of the account model (Spec) or one command *)
(* (SpecCmd) is applied to it.  disk is the set of directories that are    *)
(* git repositories, out the lines printed and the completion candidates   *)
(* handed out, gitlog the calls made to package git, counters the counters *)
(* of sync.                                                                *)
(*                                                                         *)
(* Go strings are TLA+ strings; Go maps are functions whose iteration      *)
(* order is chosen nondeterministically wherever the code ranges over one. *)
(***************************************************************************)
EXTENDS Integers, Sequences, FiniteSets, TLC

VARIABLES file, pc, config, cfg, err, call, ret, disk, out, gitlog, counters

vars == <<file, pc, config, cfg, err, call, ret, disk, out, gitlog, counters>>

(***************************************************************************)
(* Bounds of the model.                                                    *)
(***************************************************************************)
\* assignments `repos.<k1>...<kn> = [...]` in one account's repos table
MaxLeaves == 2
\* elements of one repo array
MaxRepos == 2
\* accounts under the top-level accounts table
MaxAccounts == 3

(***************************************************************************)
(* strings, path/filepath                                                  *)
(***************************************************************************)
Min(a, b) == IF a < b THEN a ELSE b

\* strings.HasPrefix
HasPrefix(s, p) == Len(p) <= Len(s) /\ SubSeq(s, 1, Len(p)) = p

\* strings.HasSuffix
HasSuffix(s, p) == Len(p) <= Len(s) /\ SubSeq(s, Len(s) - Len(p) + 1, Len(s)) = p

\* strings.TrimSuffix
TrimSuffix(s, p) == IF HasSuffix(s, p) THEN SubSeq(s, 1, Len(s) - Len(p)) ELSE s

\* strings.Contains, for a one-character substring
Contains(s, c) == \E i \in 1..Len(s) : SubSeq(s, i, i) = c

\* strings.Index, for a one-character substring: 0 when absent
Index(s, c) ==
    IF Contains(s, c) THEN CHOOSE i \in 1..Len(s) :
                               /\ SubSeq(s, i, i) = c
                               /\ \A j \in 1..(i - 1) : SubSeq(s, j, j) # c
    ELSE 0

\* strings.LastIndex, for a one-character substring: 0 when absent
LastIndex(s, c) ==
    IF Contains(s, c) THEN CHOOSE i \in 1..Len(s) :
                               /\ SubSeq(s, i, i) = c
                               /\ \A j \in (i + 1)..Len(s) : SubSeq(s, j, j) # c
    ELSE 0

\* strings.Split, for a one-character separator; Split("", c) = <<"">>
RECURSIVE Split(_, _)
Split(s, c) ==
    IF Index(s, c) = 0 THEN <<s>>
    ELSE <<SubSeq(s, 1, Index(s, c) - 1)>>
         \o Split(SubSeq(s, Index(s, c) + 1, Len(s)), c)

\* strings.Join
RECURSIVE Join(_, _)
Join(parts, c) ==
    IF Len(parts) = 0 THEN ""
    ELSE IF Len(parts) = 1 THEN parts[1]
    ELSE parts[1] \o c \o Join(Tail(parts), c)

\* strings.ReplaceAll, for one-character old and new
ReplaceAll(s, old, new) == Join(Split(s, old), new)

\* filepath.Base
RECURSIVE StripTrailingSlashes(_)
StripTrailingSlashes(p) ==
    IF Len(p) > 0 /\ SubSeq(p, Len(p), Len(p)) = "/"
    THEN StripTrailingSlashes(SubSeq(p, 1, Len(p) - 1))
    ELSE p

Base(path) ==
    IF path = "" THEN "."
    ELSE LET p == StripTrailingSlashes(path)
             q == SubSeq(p, LastIndex(p, "/") + 1, Len(p))
         IN  IF q = "" THEN "/" ELSE q

\* filepath.Clean on a path split at "/" : drops "" and ".", resolves ".."
RECURSIVE CleanParts(_, _, _)
CleanParts(parts, acc, rooted) ==
    IF Len(parts) = 0 THEN acc
    ELSE LET h == Head(parts) IN
         IF h = "" \/ h = "." THEN CleanParts(Tail(parts), acc, rooted)
         ELSE IF h = ".."
              THEN IF Len(acc) > 0 /\ acc[Len(acc)] # ".."
                   THEN CleanParts(Tail(parts), SubSeq(acc, 1, Len(acc) - 1), rooted)
                   ELSE IF rooted THEN CleanParts(Tail(parts), acc, rooted)
                        ELSE CleanParts(Tail(parts), Append(acc, h), rooted)
              ELSE CleanParts(Tail(parts), Append(acc, h), rooted)

Clean(path) ==
    IF path = "" THEN "."
    ELSE LET rooted == HasPrefix(path, "/")
             body   == Join(CleanParts(Split(path, "/"), <<>>, rooted), "/")
         IN  IF rooted THEN "/" \o body
             ELSE IF body = "" THEN "." ELSE body

\* filepath.Join: the non-empty elements joined by "/" and cleaned
FilepathJoin(elems) ==
    LET ne == SelectSeq(elems, LAMBDA e : e # "")
    IN  IF Len(ne) = 0 THEN "" ELSE Clean(Join(ne, "/"))

\* os.UserHomeDir
Home == "/h"

\* a variant of ExpandPath that expands a leading "~" whatever follows it
ExpandPathBareTilde(path) ==
    IF HasPrefix(path, "~")
    THEN FilepathJoin(<<Home, SubSeq(path, 2, Len(path))>>)
    ELSE path

\* ExpandPath expands ~ to home directory
ExpandPath(path) ==
    IF HasPrefix(path, "~/")
    THEN FilepathJoin(<<Home, SubSeq(path, 3, Len(path))>>)
    ELSE path

\* a variant of RepoName that keeps the ".git" suffix
RepoNameKeepsSuffix(url) == Base(url)

\* RepoName extracts the repository name from a git URL
RepoName(url) == TrimSuffix(Base(url), ".git")

\* the resolved name of a Repo: `name := RepoName(repo.URL); if repo.Name != "" {...}`
ResolvedName(repo) == IF repo.Name # "" THEN repo.Name ELSE RepoName(repo.URL)

(***************************************************************************)
(* The decoded configuration file: what toml.Unmarshal hands to            *)
(* LoadFromPath as map[string]any.  A value is a table, an array or        *)
(* anything else; a type assertion v.(string) / v.(bool) either holds and  *)
(* gives the value or does not hold.                                       *)
(***************************************************************************)
Is(v)  == [ok |-> TRUE, v |-> v]
IsNot  == [ok |-> FALSE]

Other      == [kind |-> "other"]
Arr(items) == [kind |-> "array", items |-> items]
Tbl(ents)  == [kind |-> "table", entries |-> ents]

\* one element of a repo array: { url = "...", name = "..." }
RepoTable(url, name) == [kind |-> "table", url |-> url, name |-> name]

\* [accounts.<name>] with its default, root and repos entries
AccountTable(default, root, repos) ==
    [kind |-> "table", default |-> default, root |-> root, repos |-> repos]

EmptyMap == [k \in {} |-> 0]

\* m[k] = v on a Go map
MapPut(m, k, v) == [x \in (DOMAIN m) \cup {k} |-> IF x = k THEN v ELSE m[x]]

\* the map without key k
MapDel(m, k) == [x \in (DOMAIN m) \ {k} |-> m[x]]

\* the nested table written by the dotted-key assignments in S, each a pair
\* <<key sequence, array items>>
RECURSIVE MkEntries(_)
MkEntries(S) ==
    [k \in {Head(a[1]) : a \in S} |->
        LET sub == {a \in S : Head(a[1]) = k}
        IN  IF \E a \in sub : Len(a[1]) = 1
            THEN Arr((CHOOSE a \in sub : Len(a[1]) = 1)[2])
            ELSE Tbl(MkEntries({<<Tail(a[1]), a[2]>> : a \in sub}))]

\* TOML rejects a document that assigns a key twice or assigns below an array
IsSeqPrefix(p, q) == Len(p) <= Len(q) /\ SubSeq(q, 1, Len(p)) = p

WellFormed(S) ==
    \A a, b \in S : a # b => ~IsSeqPrefix(a[1], b[1])

(***************************************************************************)
(* config.go                                                               *)
(***************************************************************************)
\* Repo{URL, Name} of one array element that is a table
RepoOf(item) ==
    [URL  |-> IF item.url.ok THEN item.url.v ELSE "",
     Name |-> IF item.name.ok THEN item.name.v ELSE ""]

\* the repoList built from one array: elements that are not tables are skipped
RECURSIVE RepoList(_)
RepoList(items) ==
    IF Len(items) = 0 THEN <<>>
    ELSE IF Head(items).kind = "table"
         THEN <<RepoOf(Head(items))>> \o RepoList(Tail(items))
         ELSE RepoList(Tail(items))

\* StorePath without the `if key == "/"` strip
StorePathKeepMarker(prefix, key) ==
    IF prefix = "" THEN key ELSE prefix \o "." \o key

\* a variant of StorePath that stores an array under its own key alone
StorePathLeafKey(prefix, key) ==
    IF key = "/" THEN prefix ELSE key

\* the key under which the array found at `key` below `prefix` is stored
StorePath(prefix, key) ==
    IF key = "/" THEN prefix
    ELSE IF prefix = "" THEN key ELSE prefix \o "." \o key

\* the prefix handed to the recursion for the table found at `key`
CurrentPath(prefix, key) ==
    IF prefix = "" THEN key ELSE prefix \o "." \o key

\* parseReposRecursive: the set of maps `repos` can be after the call, one for
\* every order in which the ranges over data and over its nested tables can run
RECURSIVE ParseReposRecursive(_, _, _)
RECURSIVE ParseEntry(_, _, _, _)
ParseEntry(key, value, prefix, repos) ==
    CASE value.kind = "array" ->
            {MapPut(repos, StorePath(prefix, key), RepoList(value.items))}
      [] value.kind = "table" ->
            ParseReposRecursive(value.entries, CurrentPath(prefix, key), repos)
      [] OTHER -> {repos}

ParseReposRecursive(data, prefix, repos) ==
    IF DOMAIN data = {} THEN {repos}
    ELSE UNION { UNION { ParseReposRecursive(MapDel(data, key), prefix, r)
                         : r \in ParseEntry(key, data[key], prefix, repos) }
                 : key \in DOMAIN data }

\* the Accounts an accounts-table entry can become (LoadFromPath's loop body)
ParseAccount(accountData) ==
    { [Default |-> IF accountData.default.ok THEN accountData.default.v ELSE FALSE,
       Root    |-> IF accountData.root.ok THEN accountData.root.v ELSE "",
       Repos   |-> r]
      : r \in IF accountData.repos.kind = "table"
              THEN ParseReposRecursive(accountData.repos.entries, "", EmptyMap)
              ELSE {EmptyMap} }

\* the Configs LoadFromPath can build from the accounts table: entries that
\* are not tables are skipped
BuildConfigs(accountsRaw) ==
    LET names == {n \in DOMAIN accountsRaw : accountsRaw[n].kind = "table"}
        all   == UNION {ParseAccount(accountsRaw[n]) : n \in names}
    IN  { [Accounts |-> f] : f \in { g \in [names -> all] :
                \A n \in names : g[n] \in ParseAccount(accountsRaw[n]) } }

NoErr == [kind |-> "nil"]
Nil   == [ok |-> FALSE]

\* SubpathPairs with the loop started one segment late (i := 1)
SubpathPairsLateStart(repos) ==
    UNION { { <<Join(SubSeq(Split(path, "."), 1, i + 1), "."), Split(path, ".")[i + 2]>>
              : i \in 1..(Len(Split(path, ".")) - 2) }
            : path \in DOMAIN repos }

\* Account.Validate: subpaths, parent path -> set of child segments
SubpathPairs(repos) ==
    UNION { { <<Join(SubSeq(Split(path, "."), 1, i + 1), "."), Split(path, ".")[i + 2]>>
              : i \in 0..(Len(Split(path, ".")) - 2) }
            : path \in DOMAIN repos }

Subpaths(repos) ==
    [parent \in {pr[1] : pr \in SubpathPairs(repos)} |->
        {pr[2] : pr \in {q \in SubpathPairs(repos) : q[1] = parent}}]

\* the first repo of the list whose resolved name is among siblings, 0 if none
FirstConflict(repos, siblings) ==
    IF \E i \in 1..Len(repos) : ResolvedName(repos[i]) \in siblings
    THEN CHOOSE i \in 1..Len(repos) :
            /\ ResolvedName(repos[i]) \in siblings
            /\ \A j \in 1..(i - 1) : ResolvedName(repos[j]) \notin siblings
    ELSE 0

ConflictErr(a, accountName, path, repoName) ==
    [kind    |-> "ConfigConflict",
     account |-> accountName,
     path    |-> path,
     repo    |-> repoName,
     fsPath  |-> ExpandPath(a.Root) \o "/"
                 \o ReplaceAll(path \o "." \o repoName, ".", "/") \o "/"]

\* Account.Validate: the errors it can return, one per path at which the
\* second loop can first meet a conflict; NoErr when it meets none
AccountValidate(a, accountName) ==
    LET subpaths == Subpaths(a.Repos)
        hits == { path \in DOMAIN a.Repos :
                    /\ path \in DOMAIN subpaths
                    /\ FirstConflict(a.Repos[path], subpaths[path]) # 0 }
    IN  IF hits = {} THEN {NoErr}
        ELSE { ConflictErr(a, accountName, path,
                 ResolvedName(a.Repos[path][FirstConflict(a.Repos[path], subpaths[path])]))
               : path \in hits }

\* Config.Validate returning the result of the account the range meets last
ConfigValidateLastOnly(c) ==
    IF DOMAIN c.Accounts = {} THEN {NoErr}
    ELSE UNION { AccountValidate(c.Accounts[n], n) : n \in DOMAIN c.Accounts }

\* Config.Validate: the error of whichever failing account the range meets first
ConfigValidate(c) ==
    LET errs == UNION { AccountValidate(c.Accounts[n], n) \ {NoErr}
                        : n \in DOMAIN c.Accounts }
    IN  IF errs = {} THEN {NoErr} ELSE errs


\* Config.DefaultAccount: the returns it can make; the first range stops at
\* whichever flagged account it meets first
DefaultAccount(c) ==
    LET flagged == {n \in DOMAIN c.Accounts : c.Accounts[n].Default}
    IN  IF flagged # {}
        THEN { [account |-> Is(c.Accounts[n]), name |-> n, err |-> NoErr] : n \in flagged }
        ELSE IF Cardinality(DOMAIN c.Accounts) = 1
        THEN { [account |-> Is(c.Accounts[n]), name |-> n, err |-> NoErr]
               : n \in DOMAIN c.Accounts }
        ELSE { [account |-> Nil, name |-> "", err |-> [kind |-> "NoDefaultAmbiguous"]] }

\* a variant of GetAccount that answers an unknown name with a flagged account
GetAccountFallsBack(c, name) ==
    IF name \in DOMAIN c.Accounts
    THEN [account |-> Is(c.Accounts[name]), err |-> NoErr]
    ELSE IF \E n \in DOMAIN c.Accounts : c.Accounts[n].Default
    THEN [account |-> Is(c.Accounts[CHOOSE n \in DOMAIN c.Accounts : c.Accounts[n].Default]),
          err |-> NoErr]
    ELSE [account |-> Nil, err |-> [kind |-> "AccountNotFound", name |-> name]]

\* Config.GetAccount
GetAccount(c, name) ==
    IF name \in DOMAIN c.Accounts
    THEN [account |-> Is(c.Accounts[name]), err |-> NoErr]
    ELSE [account |-> Nil, err |-> [kind |-> "AccountNotFound", name |-> name]]

\* a variant of PathMatches that lets every key pass
PathMatchesAnything(path, pathFilter) == TRUE

\* PathMatches with only the `filter names something below path` side
PathMatchesOneSided(path, pathFilter) ==
    pathFilter = "" \/ HasPrefix(pathFilter, path)

\* Account.GetRepos, the path-level test: does the range body go on for `path`
PathMatches(path, pathFilter) ==
    pathFilter = "" \/ HasPrefix(path, pathFilter) \/ HasPrefix(pathFilter, path)

\* KeepRepo with the depth test off by one (`> len(...)+2`)
KeepRepoDepthOffByOne(path, name, pathFilter) ==
    IF pathFilter # "" /\ Contains(pathFilter, ".")
    THEN LET fullRepoPath == path \o "." \o name
             parts        == Split(pathFilter, ".")
             filterPath   == Join(SubSeq(parts, 1, Len(parts) - 1), ".")
             filterName   == parts[Len(parts)]
         IN  IF ~HasPrefix(fullRepoPath, pathFilter) /\ fullRepoPath # pathFilter
             THEN ~( /\ (filterPath # path \/ filterName # name)
                     /\ Len(parts) > Len(Split(path, ".")) + 2 )
             ELSE TRUE
    ELSE TRUE

\* a variant of KeepRepo whose inner `continue` is never taken
KeepRepoAlways(path, name, pathFilter) == TRUE

\* Account.GetRepos, the per-repo test: FALSE where the body hits `continue`
KeepRepo(path, name, pathFilter) ==
    IF pathFilter # "" /\ Contains(pathFilter, ".")
    THEN LET fullRepoPath == path \o "." \o name
             parts        == Split(pathFilter, ".")
             filterPath   == Join(SubSeq(parts, 1, Len(parts) - 1), ".")
             filterName   == parts[Len(parts)]
         IN  IF ~HasPrefix(fullRepoPath, pathFilter) /\ fullRepoPath # pathFilter
             THEN ~( /\ (filterPath # path \/ filterName # name)
                     /\ Len(parts) > Len(Split(path, ".")) + 1 )
             ELSE TRUE
    ELSE TRUE

\* a variant of RepoWithPath that stores the directory form of the key as Path
RepoWithPathDirPath(a, path, repo) ==
    [Repo     |-> repo,
     Path     |-> ReplaceAll(path, ".", "/"),
     FullPath |-> FilepathJoin(<<ExpandPath(a.Root), ReplaceAll(path, ".", "/"),
                                 ResolvedName(repo)>>),
     Name     |-> ResolvedName(repo)]

\* the RepoWithPath appended for `repo` found at `path`
RepoWithPath(a, path, repo) ==
    [Repo     |-> repo,
     Path     |-> path,
     FullPath |-> FilepathJoin(<<ExpandPath(a.Root), ReplaceAll(path, ".", "/"),
                                 ResolvedName(repo)>>),
     Name     |-> ResolvedName(repo)]

\* a variant of ReposAt that stops after the first repo it keeps
RECURSIVE ReposAtFirstOnly(_, _, _, _)
ReposAtFirstOnly(a, path, repos, pathFilter) ==
    IF Len(repos) = 0 THEN <<>>
    ELSE IF KeepRepo(path, ResolvedName(Head(repos)), pathFilter)
         THEN <<RepoWithPath(a, path, Head(repos))>>
         ELSE ReposAtFirstOnly(a, path, Tail(repos), pathFilter)

\* what the inner loop appends for the list at `path`
RECURSIVE ReposAt(_, _, _, _)
ReposAt(a, path, repos, pathFilter) ==
    IF Len(repos) = 0 THEN <<>>
    ELSE (IF KeepRepo(path, ResolvedName(Head(repos)), pathFilter)
          THEN <<RepoWithPath(a, path, Head(repos))>> ELSE <<>>)
         \o ReposAt(a, path, Tail(repos), pathFilter)

\* Account.GetRepos when the range over a.Repos visits the keys in `order`
RECURSIVE GetRepos(_, _, _)
GetRepos(a, pathFilter, order) ==
    IF Len(order) = 0 THEN <<>>
    ELSE (IF PathMatches(Head(order), pathFilter)
          THEN ReposAt(a, Head(order), a.Repos[Head(order)], pathFilter)
          ELSE <<>>)
         \o GetRepos(a, pathFilter, Tail(order))

\* the orders in which a range over a map with key set S can run
RECURSIVE Orders(_)
Orders(S) ==
    IF S = {} THEN {<<>>}
    ELSE UNION { { <<k>> \o o : o \in Orders(S \ {k}) } : k \in S }

\* Config.AccountNames when the range over c.Accounts visits the names in `order`
ConfigAccountNames(c, order) == order

\* the characters of keys, names and prefixes, in byte order
Alphabet == "-./:@_abcdefghijklmnopqrstuvwxyz~"

ByteRank(ch) == Index(Alphabet, ch)

\* s < t as Go compares strings: byte by byte, a proper prefix first
RECURSIVE StringLess(_, _)
StringLess(s, t) ==
    IF Len(t) = 0 THEN FALSE
    ELSE IF Len(s) = 0 THEN TRUE
    ELSE IF SubSeq(s, 1, 1) = SubSeq(t, 1, 1) THEN StringLess(Tail(s), Tail(t))
    ELSE ByteRank(SubSeq(s, 1, 1)) < ByteRank(SubSeq(t, 1, 1))

\* x put into the sorted sequence of strings `sorted`
RECURSIVE InsertString(_, _)
InsertString(x, sorted) ==
    IF Len(sorted) = 0 THEN <<x>>
    ELSE IF StringLess(Head(sorted), x) THEN <<Head(sorted)>> \o InsertString(x, Tail(sorted))
    ELSE <<x>> \o sorted

\* sort.Strings
RECURSIVE SortStrings(_)
SortStrings(strs) ==
    IF Len(strs) = 0 THEN <<>>
    ELSE InsertString(Head(strs), SortStrings(Tail(strs)))

\* Account.RepoPaths: `paths` with s appended unless it was seen
AppendUnseen(paths, s) ==
    IF \E i \in 1..Len(paths) : paths[i] = s THEN paths ELSE Append(paths, s)

\* Account.RepoPaths, the inner loop over the list at `path`
RECURSIVE RepoPathsAt(_, _, _)
RepoPathsAt(paths, path, repos) ==
    IF Len(repos) = 0 THEN paths
    ELSE RepoPathsAt(AppendUnseen(paths, path \o "." \o ResolvedName(Head(repos))),
                     path, Tail(repos))

\* Account.RepoPaths with `paths` collected so far, the range over a.Repos
\* still to visit the keys in `order`
RECURSIVE RepoPathsFrom(_, _, _)
RepoPathsFrom(a, paths, order) ==
    IF Len(order) = 0 THEN paths
    ELSE RepoPathsFrom(a, RepoPathsAt(AppendUnseen(paths, Head(order)),
                                      Head(order), a.Repos[Head(order)]),
                       Tail(order))

\* Account.RepoPaths when the range over a.Repos visits the keys in `order`
RepoPaths(a, order) == RepoPathsFrom(a, <<>>, order)


(***************************************************************************)
(* The configuration files and command lines the model ranges over.        *)
(***************************************************************************)
ItemA     == RepoTable(Is("o/a.git"), IsNot)
ItemB     == RepoTable(Is("o/b.git"), IsNot)
ItemAasB  == RepoTable(Is("o/a.git"), Is("b"))
ItemBdotA == RepoTable(Is("o/b.a.git"), IsNot)
ItemNoUrl == RepoTable(IsNot, IsNot)
ItemSlash == RepoTable(Is("o/a/"), IsNot)
ItemMyRepo == RepoTable(Is("git@github.com:org/my-repo.git"), IsNot)

\* what a repo array may hold
ItemPool == {ItemA, ItemB, ItemAasB, ItemBdotA, ItemNoUrl, ItemSlash, ItemMyRepo, Other}

\* the key sequences of the assignments repos.<k1>...<kn> = [...]
KeyPaths ==
    { <<"a">>, <<"b">>, <<"ab">>, <<"a.b">>, <<"/">>,
      <<"a", "b">>, <<"a", "a">>, <<"a", "/">>, <<"/", "a">>, <<"a.b", "a">>,
      <<"a", "b", "/">> }

\* the arrays assigned where the shape of the tree is what varies
ShapeArrays == { <<ItemA>>, <<ItemA, ItemB>> }

\* the subsets of U with at most n elements
RECURSIVE SetsUpTo(_, _)
SetsUpTo(U, n) ==
    IF n = 0 THEN {{}}
    ELSE SetsUpTo(U, n - 1) \cup { s \cup {x} : s \in SetsUpTo(U, n - 1), x \in U }

\* the sequences over U of length at most n
RECURSIVE SeqsUpTo(_, _)
SeqsUpTo(U, n) ==
    IF n = 0 THEN {<<>>}
    ELSE SeqsUpTo(U, n - 1)
         \cup { Append(q, x) : q \in {r \in SeqsUpTo(U, n - 1) : Len(r) = n - 1}, x \in U }

\* repos tables of varying shape
ShapeTrees ==
    { Tbl(MkEntries(S)) : S \in { T \in SetsUpTo(KeyPaths \X ShapeArrays, MaxLeaves)
                                  : WellFormed(T) } }

\* repos tables of one assignment, repos.a = [...], with a varying array
ArrayTrees ==
    { Tbl(MkEntries({<< <<"a">>, items >>})) : items \in SeqsUpTo(ItemPool, MaxRepos) }

CleanTree    == Tbl(MkEntries({<< <<"a", "/">>, <<ItemA>> >>, << <<"a", "b">>, <<ItemA>> >>}))
ConflictTree == Tbl(MkEntries({<< <<"a", "/">>, <<ItemB>> >>, << <<"a", "b">>, <<ItemA>> >>}))

\* the entries an accounts table with several accounts is made of
AccountPool ==
    { AccountTable(d, Is("~/p"), t) : d \in {Is(TRUE), IsNot}, t \in {CleanTree, ConflictTree} }
    \cup {Other}

AccountNames == <<"x", "y", "z", "w">>

\* accounts tables: one account with a varying repos table, or up to
\* MaxAccounts accounts out of AccountPool
\* the README's path mapping: repos.work.backend with api
ExampleTree ==
    Tbl(MkEntries({<< <<"work", "backend">>, <<RepoTable(Is("o/api.git"), IsNot)>> >>}))

\* roots with and without the "~/" prefix, and no root at all
Roots == {Is("~/p"), Is("~/Projects"), Is("~/"), Is("~"), Is("~p"), Is("/r"), Is("r/p"), IsNot}

AccountsTables ==
    { [n \in {"x"} |-> AccountTable(IsNot, Is("~/p"), t)] : t \in ShapeTrees \cup ArrayTrees }
    \cup { [n \in {"x"} |-> AccountTable(IsNot, r, Other)] : r \in {Is("/r"), IsNot} }
    \cup { [n \in {"x"} |-> AccountTable(IsNot, r, t)] : r \in Roots, t \in {CleanTree, ExampleTree} }
    \cup UNION { [ {AccountNames[i] : i \in 1..k} -> AccountPool ]
                 : k \in 0..Min(MaxAccounts, Len(AccountNames)) }

\* the file at the config path: absent, not TOML, or decoded
Files ==
    { [exists |-> FALSE], [exists |-> TRUE, toml |-> FALSE],
      [exists |-> TRUE, toml |-> TRUE, accounts |-> Other] }
    \cup { [exists |-> TRUE, toml |-> TRUE, accounts |-> Tbl(t)] : t \in AccountsTables }

\* the path arguments of status and sync
Filters ==
    { "", "a", "b", "ab", "c", "a.b", "a.a", "a.ab", "a.b.a", "a.b.b", "a.b.a.b" }

\* the values of --account, beyond the names of the file's accounts
OtherNames == { "nobody" }

NoCall == [op |-> "none"]

\* cloned, fetched, skipped, failed of syncCmd before its loop
NoCounters == [cloned |-> 0, fetched |-> 0, skipped |-> 0, failed |-> 0]

(***************************************************************************)
(* commands: root.go, sync.go, status.go, complete.go; package git         *)
(***************************************************************************)
\* getAccount: the account named by --account, or the default account
GetAccountForCommand(c, accountFlag) ==
    IF accountFlag # ""
    THEN LET r == GetAccount(c, accountFlag)
         IN  { [account |-> r.account,
                name    |-> IF r.err = NoErr THEN accountFlag ELSE "",
                err     |-> r.err] }
    ELSE DefaultAccount(c)

\* git.Exists: the path opens as a git repository
GitExists(d, path) == path \in d

\* a line printed or a candidate handed out
Line(kind, text) == [kind |-> kind, text |-> text]

\* a call to package git with its result
GitCall(op, path, ok) == [op |-> op, path |-> path, ok |-> ok]

\* the message of status and sync for an empty result
NoReposLine(pathFilter, accountName) ==
    IF pathFilter # ""
    THEN Line("norepos", "No repos found matching '" \o pathFilter
                          \o "' in account '" \o accountName \o "'")
    ELSE Line("norepos", "No repos configured in account '" \o accountName \o "'")

\* the state of syncCmd's loop before the first repo
SyncStart(d) ==
    [disk |-> d, out |-> <<>>, gitlog |-> <<>>,
     cloned |-> 0, fetched |-> 0, skipped |-> 0, failed |-> 0]

\* a variant of SyncBody that clones without asking whether the repo exists
SyncBodyAlwaysClones(st, repo, fetchFlag) ==
    LET displayPath == repo.Path \o "." \o repo.Name
        probed == [st EXCEPT !.gitlog =
                      Append(@, GitCall("Exists", repo.FullPath, GitExists(st.disk, repo.FullPath)))]
    IN  { [probed EXCEPT !.out = Append(@, Line("clone", displayPath)) \o <<Line("error", displayPath)>>,
                         !.gitlog = Append(@, GitCall("Clone", repo.FullPath, FALSE)),
                         !.failed = @ + 1],
          [probed EXCEPT !.out = Append(@, Line("clone", displayPath)),
                         !.gitlog = Append(@, GitCall("Clone", repo.FullPath, TRUE)),
                         !.cloned = @ + 1,
                         !.disk = @ \cup {repo.FullPath}] }

\* syncCmd, the loop body for `repo`: the loop states it can end in, a clone
\* or a fetch either failing or succeeding
SyncBody(st, repo, fetchFlag) ==
    LET displayPath == repo.Path \o "." \o repo.Name
        probed == [st EXCEPT !.gitlog =
                      Append(@, GitCall("Exists", repo.FullPath, GitExists(st.disk, repo.FullPath)))]
    IN  IF GitExists(st.disk, repo.FullPath)
        THEN IF fetchFlag
             THEN { [probed EXCEPT !.out = Append(@, Line("fetch", displayPath))
                                            \o <<Line("error", displayPath)>>,
                                   !.gitlog = Append(@, GitCall("Fetch", repo.FullPath, FALSE)),
                                   !.failed = @ + 1],
                    [probed EXCEPT !.out = Append(@, Line("fetch", displayPath)),
                                   !.gitlog = Append(@, GitCall("Fetch", repo.FullPath, TRUE)),
                                   !.fetched = @ + 1] }
             ELSE { [probed EXCEPT !.out = Append(@, Line("skip", displayPath)),
                                   !.skipped = @ + 1] }
        ELSE { [probed EXCEPT !.out = Append(@, Line("clone", displayPath))
                                       \o <<Line("error", displayPath)>>,
                              !.gitlog = Append(@, GitCall("Clone", repo.FullPath, FALSE)),
                              !.failed = @ + 1],
               [probed EXCEPT !.out = Append(@, Line("clone", displayPath)),
                              !.gitlog = Append(@, GitCall("Clone", repo.FullPath, TRUE)),
                              !.cloned = @ + 1,
                              !.disk = @ \cup {repo.FullPath}] }

\* a variant of SyncLoop that leaves the loop at the first failure
RECURSIVE SyncLoopStopsAtFailure(_, _, _)
SyncLoopStopsAtFailure(st, repos, fetchFlag) ==
    IF Len(repos) = 0 THEN {st}
    ELSE UNION { IF st2.failed > st.failed THEN {st2}
                 ELSE SyncLoopStopsAtFailure(st2, Tail(repos), fetchFlag)
                 : st2 \in SyncBody(st, Head(repos), fetchFlag) }

\* syncCmd, the loop over repos from the loop state st
RECURSIVE SyncLoop(_, _, _)
SyncLoop(st, repos, fetchFlag) ==
    IF Len(repos) = 0 THEN {st}
    ELSE UNION { SyncLoop(st2, Tail(repos), fetchFlag) : st2 \in SyncBody(st, Head(repos), fetchFlag) }

\* syncCmd, the summary line
SummaryLine(st) ==
    LET parts == (IF st.cloned > 0 THEN <<ToString(st.cloned) \o " cloned">> ELSE <<>>)
                 \o (IF st.fetched > 0 THEN <<ToString(st.fetched) \o " fetched">> ELSE <<>>)
                 \o (IF st.skipped > 0 THEN <<ToString(st.skipped) \o " skipped">> ELSE <<>>)
                 \o (IF st.failed > 0 THEN <<ToString(st.failed) \o " failed">> ELSE <<>>)
    IN  Line("summary", "Summary: " \o Join(IF Len(parts) = 0 THEN <<"nothing to do">> ELSE parts, ", "))

\* syncCmd after getAccount: what it prints, the git calls it makes and the
\* disk it leaves, for the list GetRepos returned
SyncRuns(d, repos, pathFilter, accountName, fetchFlag) ==
    IF Len(repos) = 0
    THEN { [SyncStart(d) EXCEPT !.out = <<NoReposLine(pathFilter, accountName)>>] }
    ELSE { [st EXCEPT !.out = Append(@, SummaryLine(st))]
           : st \in SyncLoop(SyncStart(d), repos, fetchFlag) }

\* the positions of `repos` whose display path no other display path is below
MinimalAt(repos) ==
    { i \in 1..Len(repos) :
        \A j \in 1..Len(repos) :
            ~StringLess(repos[j].Path \o "." \o repos[j].Name,
                        repos[i].Path \o "." \o repos[i].Name) }

\* sort.Slice by display path: the orders it can leave, equal display paths
\* in any order
RECURSIVE SortSlice(_)
SortSlice(repos) ==
    IF Len(repos) = 0 THEN {<<>>}
    ELSE UNION { { <<repos[i]>> \o rest
                   : rest \in SortSlice(SubSeq(repos, 1, i - 1) \o SubSeq(repos, i + 1, Len(repos))) }
                 : i \in MinimalAt(repos) }

\* the one-character stand-in for the ellipsis that truncate appends
Ellipsis == "_"

\* truncate: s[:maxLen-1] panics when maxLen-1 is negative
Truncate(s, maxLen) ==
    IF Len(s) <= maxLen THEN [panic |-> FALSE, v |-> s]
    ELSE IF maxLen - 1 < 0 THEN [panic |-> TRUE, v |-> ""]
    ELSE [panic |-> FALSE, v |-> SubSeq(s, 1, maxLen - 1) \o Ellipsis]

\* a row of the status table: the repo it is for, its PATH and BRANCH cells
Row(displayPath, pathText, branchText) ==
    [kind |-> "row", text |-> displayPath, path |-> pathText, branch |-> branchText]

\* the branch git.Status reports
Branch == "main"

\* the state of statusCmd's loop before the first repo
StatusStart(d, noHeaders) ==
    [disk |-> d, out |-> IF noHeaders THEN <<>> ELSE <<Line("header", "PATH")>>,
     gitlog |-> <<>>, panicked |-> FALSE]

\* printRepoStatus: the row of one repo; git.Status fails or succeeds, and a
\* truncate that panics ends the command
StatusRow(st, repo, pathWidth, branchWidth) ==
    LET displayPath == repo.Path \o "." \o repo.Name
        pathText == Truncate(displayPath, pathWidth)
        branchText == Truncate(Branch, branchWidth)
        probed == [st EXCEPT !.gitlog =
                      Append(@, GitCall("Exists", repo.FullPath, GitExists(st.disk, repo.FullPath)))]
        asked == [probed EXCEPT !.gitlog = Append(@, GitCall("Status", repo.FullPath, TRUE))]
    IN  IF pathText.panic THEN { [st EXCEPT !.panicked = TRUE] }
        ELSE IF ~GitExists(st.disk, repo.FullPath)
        THEN { [probed EXCEPT !.out = Append(@, Row(displayPath, pathText.v, ""))] }
        ELSE { [probed EXCEPT !.out = Append(@, Row(displayPath, pathText.v, "")),
                              !.gitlog = Append(@, GitCall("Status", repo.FullPath, FALSE))],
               IF branchText.panic
               THEN [asked EXCEPT !.panicked = TRUE]
               ELSE [asked EXCEPT !.out = Append(@, Row(displayPath, pathText.v, branchText.v))] }

\* statusCmd, the loop over the sorted repos
RECURSIVE StatusLoop(_, _, _, _)
StatusLoop(st, repos, pathWidth, branchWidth) ==
    IF Len(repos) = 0 \/ st.panicked THEN {st}
    ELSE UNION { StatusLoop(st2, Tail(repos), pathWidth, branchWidth)
                 : st2 \in StatusRow(st, Head(repos), pathWidth, branchWidth) }

\* statusCmd after getAccount
StatusRuns(d, repos, pathFilter, accountName, noHeaders, pathWidth, branchWidth) ==
    IF Len(repos) = 0
    THEN { [StatusStart(d, TRUE) EXCEPT !.out = <<NoReposLine(pathFilter, accountName)>>] }
    ELSE UNION { StatusLoop(StatusStart(d, noHeaders), sorted, pathWidth, branchWidth)
                 : sorted \in SortSlice(repos) }

\* the candidates that start with prefix, as completion lines
RECURSIVE Candidates(_, _)
Candidates(strs, prefix) ==
    IF Len(strs) = 0 THEN <<>>
    ELSE (IF prefix = "" \/ HasPrefix(Head(strs), prefix)
          THEN <<Line("candidate", Head(strs))>> ELSE <<>>)
         \o Candidates(Tail(strs), prefix)

\* starterConfig, decoded: one account "default", flagged, without repos
StarterFile ==
    [exists |-> TRUE, toml |-> TRUE,
     accounts |-> Tbl([n \in {"default"} |-> AccountTable(Is(TRUE), Is("~/Projects"), Other)])]

\* a variant of InitRuns that writes the starter config whatever is there
InitRunsOverwrites(f) ==
    { [file |-> StarterFile, ret |-> NoErr, out |-> <<Line("created", "config.toml")>>] }

\* initCmd: the file it leaves, the error it returns and what it prints.
\* os.Stat finds the file, or MkdirAll fails, or WriteFile fails (before or
\* after it created the file), or the starter config is written
InitRuns(f) ==
    IF f.exists
    THEN { [file |-> f, ret |-> [kind |-> "ConfigExists"], out |-> <<>>] }
    ELSE { [file |-> f, ret |-> [kind |-> "MkdirFailed"], out |-> <<>>],
           [file |-> f, ret |-> [kind |-> "WriteFailed"], out |-> <<>>],
           [file |-> [exists |-> TRUE, toml |-> FALSE],
            ret |-> [kind |-> "WriteFailed"], out |-> <<>>],
           [file |-> StarterFile, ret |-> NoErr,
            out |-> <<Line("created", "config.toml")>>] }

(***************************************************************************)
(* The configuration files, disks and command lines of the commands.       *)
(***************************************************************************)
\* repo arrays for the commands; the last one holds two repos named b
CmdArrays == {<<ItemA>>, <<ItemB, ItemA>>, <<ItemB, ItemAasB>>}

\* repos tables for the commands
CmdTrees ==
    { Tbl(MkEntries(S))
      : S \in { T \in SetsUpTo({<<"a">>, <<"b">>, <<"a", "b">>} \X CmdArrays,
                               MaxLeaves)
                : WellFormed(T) } }

\* the accounts of a file with several accounts
CmdAccountPool ==
    { AccountTable(dflt, Is("~/p"), CleanTree) : dflt \in {Is(TRUE), IsNot} }

CmdAccountsTables ==
    { [n \in {"x"} |-> AccountTable(IsNot, Is("~/p"), t)] : t \in CmdTrees }
    \cup UNION { [ {AccountNames[i] : i \in 1..k} -> CmdAccountPool ]
                 : k \in 0..Min(MaxAccounts, Len(AccountNames)) }

CmdFiles ==
    { [exists |-> FALSE] }
    \cup { [exists |-> TRUE, toml |-> TRUE, accounts |-> Tbl(t)] : t \in CmdAccountsTables }

\* the directories that are git repositories when the command starts
Disks ==
    { {}, {"/h/p/a/a"}, {"/h/p/a/b", "/h/p/b/a"},
      {"/h/p/a/a", "/h/p/a/b", "/h/p/b/a", "/h/p/b/b", "/h/p/a/b/a", "/h/p/a/b/b"} }

\* the path arguments and completion prefixes
CmdFilters == {"", "a", "b", "c", "a.b", "a.a"}

\* the defaults of --path-width and --branch-width
PathWidthDefault == 30
BranchWidthDefault == 15

\* the values of --path-width and --branch-width
WidthFlags ==
    { <<PathWidthDefault, BranchWidthDefault>>, <<0, BranchWidthDefault>>,
      <<1, BranchWidthDefault>>, <<4, BranchWidthDefault>>,
      <<PathWidthDefault, 0>>, <<PathWidthDefault, 3>> }

\* the values of --account
AccountFlags(c) == {""} \cup DOMAIN c.Accounts \cup OtherNames

(***************************************************************************)
(* One invocation.                                                         *)
(***************************************************************************)
Init ==
    /\ file \in Files
    /\ pc = "start"
    /\ config = Nil
    /\ cfg = Nil
    /\ err = NoErr
    /\ call = NoCall
    /\ ret = Nil
    /\ disk = {}
    /\ out = <<>>
    /\ gitlog = <<>>
    /\ counters = NoCounters

\* LoadFromPath fails before any account is parsed
LoadFail ==
    /\ pc = "start"
    /\ \/ ~file.exists /\ err' = [kind |-> "ConfigMissing"]
       \/ file.exists /\ ~file.toml /\ err' = [kind |-> "ConfigDecodeError"]
       \/ file.exists /\ file.toml /\ file.accounts.kind # "table"
          /\ err' = [kind |-> "MissingAccountsSection"]
    /\ pc' = "failed"
    /\ UNCHANGED <<file, config, cfg, call, ret, disk, out, gitlog, counters>>

\* a variant of ValidateEffect in which Validate stores the parents it looks up
ValidateEffectStoresParents(a, accountName) ==
    LET parents == { pr[1] : pr \in SubpathPairs(a.Repos) }
    IN  [a EXCEPT !.Repos =
            [p \in (DOMAIN a.Repos) \cup parents |->
                IF p \in DOMAIN a.Repos THEN a.Repos[p] ELSE <<>>]]

\* the account as Account.Validate leaves it: the method reads a.Repos and
\* assigns to locals only
ValidateEffect(a, accountName) == a

\* the Config as Config.Validate leaves it
ConfigAfterValidate(c) ==
    [Accounts |-> [n \in DOMAIN c.Accounts |-> ValidateEffect(c.Accounts[n], n)]]

\* LoadFromPath builds the Config and validates it
Load ==
    /\ pc = "start"
    /\ file.exists /\ file.toml /\ file.accounts.kind = "table"
    /\ \E c \in BuildConfigs(file.accounts.entries) :
         \E e \in ConfigValidate(c) :
            /\ config' = Is(ConfigAfterValidate(c))
            /\ err' = e
            /\ cfg' = IF e = NoErr THEN Is(ConfigAfterValidate(c)) ELSE Nil
            /\ pc' = IF e = NoErr THEN "loaded" ELSE "failed"
    /\ UNCHANGED <<file, call, ret, disk, out, gitlog, counters>>

\* cfg.DefaultAccount()
DoDefaultAccount ==
    /\ pc = "loaded"
    /\ \E r \in DefaultAccount(cfg.v) :
         /\ call' = [op |-> "DefaultAccount"]
         /\ ret' = r
    /\ pc' = "done"
    /\ UNCHANGED <<file, config, cfg, err, disk, out, gitlog, counters>>

\* cfg.GetAccount(name)
DoGetAccount ==
    /\ pc = "loaded"
    /\ \E name \in (DOMAIN file.accounts.entries) \cup OtherNames :
         /\ call' = [op |-> "GetAccount", name |-> name]
         /\ ret' = GetAccount(cfg.v, name)
    /\ pc' = "done"
    /\ UNCHANGED <<file, config, cfg, err, disk, out, gitlog, counters>>

\* account.GetRepos(pathFilter), on the account a command resolved; the
\* resolver may be asked again with the same arguments
DoGetRepos ==
    /\ pc = "loaded" \/ (pc = "done" /\ call.op = "GetRepos")
    /\ \E name \in DOMAIN cfg.v.Accounts, pathFilter \in Filters :
         /\ pc = "done" => call = [op |-> "GetRepos", name |-> name, filter |-> pathFilter]
         /\ \E order \in Orders(DOMAIN cfg.v.Accounts[name].Repos) :
              ret' = GetRepos(cfg.v.Accounts[name], pathFilter, order)
         /\ call' = [op |-> "GetRepos", name |-> name, filter |-> pathFilter]
    /\ pc' = "done"
    /\ UNCHANGED <<file, config, cfg, err, disk, out, gitlog, counters>>

\* account.RepoPaths(), on the account a completion resolved
DoRepoPaths ==
    /\ pc = "loaded"
    /\ \E name \in DOMAIN cfg.v.Accounts :
         /\ \E order \in Orders(DOMAIN cfg.v.Accounts[name].Repos) :
              ret' = RepoPaths(cfg.v.Accounts[name], order)
         /\ call' = [op |-> "RepoPaths", name |-> name]
    /\ pc' = "done"
    /\ UNCHANGED <<file, config, cfg, err, disk, out, gitlog, counters>>

Next ==
    \/ LoadFail
    \/ Load
    \/ DoDefaultAccount
    \/ DoGetAccount
    \/ DoGetRepos
    \/ DoRepoPaths

Spec == Init /\ [][Next]_vars

\* one invocation of a command: a configuration file and a disk
InitCmd ==
    /\ file \in CmdFiles
    /\ pc = "start"
    /\ config = Nil
    /\ cfg = Nil
    /\ err = NoErr
    /\ call = NoCall
    /\ ret = Nil
    /\ disk \in Disks
    /\ out = <<>>
    /\ gitlog = <<>>
    /\ counters = NoCounters

\* arbol sync [path] [--fetch] [--account name]
DoSync ==
    /\ pc = "loaded"
    /\ \E accountFlag \in AccountFlags(cfg.v), pathFilter \in CmdFilters, fetchFlag \in BOOLEAN :
         \E got \in GetAccountForCommand(cfg.v, accountFlag) :
            /\ call' = [op |-> "sync", account |-> accountFlag, filter |-> pathFilter,
                        fetch |-> fetchFlag, name |-> got.name]
            /\ IF got.err # NoErr
               THEN ret' = got.err /\ UNCHANGED <<disk, out, gitlog, counters>>
               ELSE \E order \in Orders(DOMAIN got.account.v.Repos) :
                      \E run \in SyncRuns(disk, GetRepos(got.account.v, pathFilter, order),
                                          pathFilter, got.name, fetchFlag) :
                         /\ ret' = NoErr
                         /\ disk' = run.disk
                         /\ out' = run.out
                         /\ gitlog' = run.gitlog
                         /\ counters' = [cloned |-> run.cloned, fetched |-> run.fetched,
                                         skipped |-> run.skipped, failed |-> run.failed]
    /\ pc' = "done"
    /\ UNCHANGED <<file, config, cfg, err>>

\* arbol status [path] [--no-headers] [--path-width n] [--branch-width n]
\* [--account name]
DoStatus ==
    /\ pc = "loaded"
    /\ \E accountFlag \in AccountFlags(cfg.v), pathFilter \in CmdFilters, noHeaders \in BOOLEAN,
          widths \in WidthFlags :
         \E got \in GetAccountForCommand(cfg.v, accountFlag) :
            /\ call' = [op |-> "status", account |-> accountFlag, filter |-> pathFilter,
                        noHeaders |-> noHeaders, name |-> got.name,
                        pathWidth |-> widths[1], branchWidth |-> widths[2]]
            /\ IF got.err # NoErr
               THEN ret' = got.err /\ UNCHANGED <<out, gitlog>>
               ELSE \E order \in Orders(DOMAIN got.account.v.Repos) :
                      \E run \in StatusRuns(disk, GetRepos(got.account.v, pathFilter, order),
                                            pathFilter, got.name, noHeaders,
                                            widths[1], widths[2]) :
                         /\ ret' = IF run.panicked THEN [kind |-> "panic"] ELSE NoErr
                         /\ out' = run.out
                         /\ gitlog' = run.gitlog
    /\ pc' = "done"
    /\ UNCHANGED <<file, config, cfg, err, disk, counters>>

\* arbol __complete-path [prefix] [--account name]
DoCompletePath ==
    /\ pc = "loaded"
    /\ \E accountFlag \in AccountFlags(cfg.v), prefix \in CmdFilters :
         \E got \in GetAccountForCommand(cfg.v, accountFlag) :
            /\ call' = [op |-> "complete-path", account |-> accountFlag, filter |-> prefix,
                        name |-> got.name]
            /\ IF got.err # NoErr
               THEN out' = <<>>
               ELSE \E order \in Orders(DOMAIN got.account.v.Repos) :
                      out' = Candidates(SortStrings(RepoPaths(got.account.v, order)), prefix)
    /\ ret' = NoErr
    /\ pc' = "done"
    /\ UNCHANGED <<file, config, cfg, err, disk, gitlog, counters>>

\* arbol __complete-account [prefix]
DoCompleteAccount ==
    /\ pc = "loaded"
    /\ \E prefix \in {"", "x", "y", "n"} :
         /\ call' = [op |-> "complete-account", filter |-> prefix]
         /\ \E order \in Orders(DOMAIN cfg.v.Accounts) :
              out' = Candidates(SortStrings(ConfigAccountNames(cfg.v, order)), prefix)
    /\ ret' = NoErr
    /\ pc' = "done"
    /\ UNCHANGED <<file, config, cfg, err, disk, gitlog, counters>>

\* completeRepoPath, the completion of the path argument of status and sync
DoCompleteRepoPath ==
    /\ pc = "loaded"
    /\ \E accountFlag \in AccountFlags(cfg.v), args \in {<<>>, <<"a">>} :
         \E got \in GetAccountForCommand(cfg.v, accountFlag) :
            /\ call' = [op |-> "completeRepoPath", account |-> accountFlag, args |-> args,
                        name |-> got.name]
            /\ IF Len(args) > 0 \/ got.err # NoErr
               THEN out' = <<>>
               ELSE \E order \in Orders(DOMAIN got.account.v.Repos) :
                      out' = Candidates(RepoPaths(got.account.v, order), "")
    /\ ret' = NoErr
    /\ pc' = "done"
    /\ UNCHANGED <<file, config, cfg, err, disk, gitlog, counters>>

\* the completion of the value of --account
DoCompleteAccountFlag ==
    /\ pc = "loaded"
    /\ call' = [op |-> "completeAccountFlag"]
    /\ \E order \in Orders(DOMAIN cfg.v.Accounts) :
         out' = Candidates(ConfigAccountNames(cfg.v, order), "")
    /\ ret' = NoErr
    /\ pc' = "done"
    /\ UNCHANGED <<file, config, cfg, err, disk, gitlog, counters>>

\* arbol init; PersistentPreRunE does not load the config for it
DoInit ==
    /\ pc = "start"
    /\ \E run \in InitRuns(file) :
         /\ file' = run.file
         /\ ret' = run.ret
         /\ out' = run.out
    /\ call' = [op |-> "init"]
    /\ pc' = "done"
    /\ UNCHANGED <<config, cfg, err, disk, gitlog, counters>>

NextCmd ==
    \/ LoadFail
    \/ Load
    \/ DoGetRepos
    \/ DoSync
    \/ DoStatus
    \/ DoCompletePath
    \/ DoCompleteAccount
    \/ DoCompleteRepoPath
    \/ DoCompleteAccountFlag
    \/ DoInit

SpecCmd == InitCmd /\ [][NextCmd]_vars

(***************************************************************************)
(* Vocabulary of the properties.                                           *)
(***************************************************************************)
Resolving == call.op = "GetRepos"

\* the account the last GetRepos was applied to
Resolved == cfg.v.Accounts[call.name]

\* P + "." + resolved name of the i-th repo at P
QualifiedName(a, P, i) == P \o "." \o ResolvedName(a.Repos[P][i])

SegmentCount(p) == Len(Split(p, "."))

\* P followed by "." starts K
StrictDotPrefix(P, K) == HasPrefix(K, P \o ".")

\* the segment of K right after P, for P a strict dot-prefix of K
NextSegment(P, K) ==
    LET rest == SubSeq(K, Len(P) + 2, Len(K))
    IN  IF Index(rest, ".") = 0 THEN rest ELSE SubSeq(rest, 1, Index(rest, ".") - 1)

\* some repo at some key P is named like a child segment of P
HasConflict(a) ==
    \E P \in DOMAIN a.Repos, K \in DOMAIN a.Repos :
        /\ StrictDotPrefix(P, K)
        /\ \E i \in 1..Len(a.Repos[P]) :
              ResolvedName(a.Repos[P][i]) = NextSegment(P, K)

IsConflictAt(a, P, name) ==
    /\ P \in DOMAIN a.Repos
    /\ \E i \in 1..Len(a.Repos[P]) : ResolvedName(a.Repos[P][i]) = name
    /\ \E K \in DOMAIN a.Repos : StrictDotPrefix(P, K) /\ NextSegment(P, K) = name

\* the arrays of a decoded repos table, each with the sequence of keys it is under
RECURSIVE Leaves(_, _)
Leaves(node, keys) ==
    CASE node.kind = "array" -> {<<keys, node.items>>}
      [] node.kind = "table" ->
            UNION { Leaves(node.entries[k], Append(keys, k)) : k \in DOMAIN node.entries }
      [] OTHER -> {}

\* the key the storage rule gives the array under the key sequence `keys`
RuleKey(keys) ==
    IF keys[Len(keys)] = "/" THEN Join(SubSeq(keys, 1, Len(keys) - 1), ".")
    ELSE Join(keys, ".")

\* the descriptors of an array, in array order
Descriptors(items) ==
    LET tables == SelectSeq(items, LAMBDA it : it.kind = "table")
    IN  [i \in 1..Len(tables) |->
            [URL  |-> IF tables[i].url.ok THEN tables[i].url.v ELSE "",
             Name |-> IF tables[i].name.ok THEN tables[i].name.v ELSE ""]]

\* a non-empty dot-joined sequence of non-empty segments, none the marker "/"
ValidLogicalPath(P) ==
    /\ P # ""
    /\ \A i \in 1..Len(Split(P, ".")) :
          Split(P, ".")[i] # "" /\ Split(P, ".")[i] # "/"

FileRepos(n) == file.accounts.entries[n].repos

\* the records of ret that come from key P, as their descriptors in order
FromPath(P) ==
    LET sel == SelectSeq(ret, LAMBDA r : r.Path = P)
    IN  [i \in 1..Len(sel) |-> sel[i].Repo]

Returned(a, P, i) == \E j \in 1..Len(ret) : ret[j] = RepoWithPath(a, P, a.Repos[P][i])

(***************************************************************************)
(* C1: a filter P.n that names one repo at key P, and that no key starts   *)
(* with, makes GetRepos return only repos whose qualified name is the      *)
(* filter.                                                                 *)
(***************************************************************************)
C1_FilterNamesOneRepo ==
    Resolving =>
        \A P \in DOMAIN Resolved.Repos : \A i \in 1..Len(Resolved.Repos[P]) :
            ( /\ call.filter = QualifiedName(Resolved, P, i)
              /\ \A K \in DOMAIN Resolved.Repos : ~HasPrefix(K, call.filter) )
            => \A j \in 1..Len(ret) : ret[j].Path \o "." \o ret[j].Name = call.filter

(***************************************************************************)
(* C2: Account.Validate fails for an account exactly when some repo at     *)
(* some key P has the resolved name of the segment that follows P in       *)
(* another key; the error of a failed load names such an account, path and *)
(* repo.                                                                   *)
(***************************************************************************)
C2_ValidateIffConflict ==
    config.ok =>
        /\ \A n \in DOMAIN config.v.Accounts :
              (AccountValidate(config.v.Accounts[n], n) # {NoErr})
                  <=> HasConflict(config.v.Accounts[n])
        /\ (err.kind = "ConfigConflict")
              <=> \E n \in DOMAIN config.v.Accounts : HasConflict(config.v.Accounts[n])
        /\ err.kind = "ConfigConflict" =>
              /\ err.account \in DOMAIN config.v.Accounts
              /\ IsConflictAt(config.v.Accounts[err.account], err.path, err.repo)

\* a conflict at a key that was written without the "/" marker
C2_Witness ==
    /\ pc = "failed"
    /\ err.kind = "ConfigConflict"
    /\ err.path = "a" /\ err.repo = "b"
    /\ "a" \in DOMAIN FileRepos(err.account).entries
    /\ FileRepos(err.account).entries["a"].kind = "array"

(***************************************************************************)
(* C3: every array of the repos table is stored under the key of its       *)
(* parent when its own key is "/" and under its dot-joined key sequence    *)
(* otherwise, as its descriptors in array order; nothing else is stored.   *)
(***************************************************************************)
C3_StoredUnderRuleKey ==
    config.ok =>
        \A n \in DOMAIN config.v.Accounts :
            LET leaves == Leaves(FileRepos(n), <<>>)
                repos  == config.v.Accounts[n].Repos
            IN  /\ DOMAIN repos = {RuleKey(l[1]) : l \in leaves}
                /\ \A P \in DOMAIN repos :
                      \E l \in leaves : RuleKey(l[1]) = P /\ repos[P] = Descriptors(l[2])

\* a.b = [u1] and a."/" = [u2, u3] gave Repos["a.b"] = [u1], Repos["a"] = [u2, u3]
C3_Witness ==
    /\ config.ok
    /\ "x" \in DOMAIN config.v.Accounts
    /\ Leaves(FileRepos("x"), <<>>) =
          { << <<"a", "b">>, <<ItemA>> >>, << <<"a", "/">>, <<ItemA, ItemB>> >> }
    /\ DOMAIN config.v.Accounts["x"].Repos = {"a", "a.b"}
    /\ config.v.Accounts["x"].Repos["a.b"] = <<[URL |-> "o/a.git", Name |-> ""]>>
    /\ config.v.Accounts["x"].Repos["a"] =
          <<[URL |-> "o/a.git", Name |-> ""], [URL |-> "o/b.git", Name |-> ""]>>

(***************************************************************************)
(* C4: every key of every account's Repos map is a valid logical path:     *)
(* non-empty, dot-joined from non-empty segments, none of them "/".        *)
(***************************************************************************)
C4_KeysAreLogicalPaths ==
    config.ok =>
        \A n \in DOMAIN config.v.Accounts :
            \A P \in DOMAIN config.v.Accounts[n].Repos : ValidLogicalPath(P)

(***************************************************************************)
(* C5: when any account of the configuration has a conflict, LoadFromPath  *)
(* returns an error and no Config.                                         *)
(***************************************************************************)
C5_ConflictFailsWholeLoad ==
    (config.ok /\ \E n \in DOMAIN config.v.Accounts : HasConflict(config.v.Accounts[n]))
        => /\ cfg = Nil
           /\ err.kind = "ConfigConflict"
           /\ pc = "failed"

\* three accounts, one conflicting and two conflict-free, and the load failed
C5_Witness ==
    /\ pc = "failed"
    /\ config.ok
    /\ Cardinality(DOMAIN config.v.Accounts) = 3
    /\ Cardinality({n \in DOMAIN config.v.Accounts : HasConflict(config.v.Accounts[n])}) = 1
    /\ cfg = Nil

(***************************************************************************)
(* C6: DefaultAccount returns the flagged account when exactly one is      *)
(* flagged, the only account when none is flagged and there is one, and    *)
(* fails with NoDefaultAmbiguous otherwise.                                *)
(***************************************************************************)
C6_DefaultAccount ==
    call.op = "DefaultAccount" =>
        LET accts   == cfg.v.Accounts
            flagged == {n \in DOMAIN accts : accts[n].Default}
        IN  IF Cardinality(flagged) = 1
            THEN ret.err = NoErr /\ ret.name \in flagged
                 /\ ret.account = Is(accts[ret.name])
            ELSE IF flagged = {} /\ Cardinality(DOMAIN accts) = 1
            THEN ret.err = NoErr /\ ret.name \in DOMAIN accts
                 /\ ret.account = Is(accts[ret.name])
            ELSE ret.err.kind = "NoDefaultAmbiguous" /\ ret.account = Nil

(***************************************************************************)
(* C7: a Config that LoadFromPath returned has at most one account whose   *)
(* Default flag is true.                                                   *)
(***************************************************************************)
C7_AtMostOneDefault ==
    cfg.ok => Cardinality({n \in DOMAIN cfg.v.Accounts : cfg.v.Accounts[n].Default}) <= 1

(***************************************************************************)
(* C8: asking GetRepos again with the same account and filter returns the  *)
(* same list in the same order.                                            *)
(***************************************************************************)
C8_SameOrderTwice ==
    [][(call.op = "GetRepos" /\ call' = call) => ret' = ret]_vars

(***************************************************************************)
(* C9: with a non-empty filter, every key P that starts with the filter    *)
(* contributes each repo of Repos[P] exactly once.                         *)
(***************************************************************************)
C9_SubtreeSelection ==
    (Resolving /\ call.filter # "") =>
        \A P \in DOMAIN Resolved.Repos :
            HasPrefix(P, call.filter) => FromPath(P) = Resolved.Repos[P]

\* filter "a" returned both repos of key "a.b"
C9_Witness ==
    /\ Resolving
    /\ call.filter = "a"
    /\ "a.b" \in DOMAIN Resolved.Repos
    /\ Len(Resolved.Repos["a.b"]) = 2
    /\ FromPath("a.b") = Resolved.Repos["a.b"]

(***************************************************************************)
(* C10, as claimed: where key P is a proper prefix of the filter, every    *)
(* repo at P whose qualified name is the filter or a prefix of it is       *)
(* returned, however much deeper than P the filter is.                     *)
(***************************************************************************)
C10_KeepsPrefixesAtAnyDepth ==
    Resolving =>
        \A P \in DOMAIN Resolved.Repos : \A i \in 1..Len(Resolved.Repos[P]) :
            ( /\ HasPrefix(call.filter, P) /\ P # call.filter
              /\ HasPrefix(call.filter, QualifiedName(Resolved, P, i)) )
            => Returned(Resolved, P, i)

(***************************************************************************)
(* C10, amended: where key P is a proper prefix of the filter, a repo at P *)
(* whose qualified name is the filter is returned at any depth; one whose  *)
(* qualified name is a proper prefix of the filter is returned exactly     *)
(* when the filter has at most one segment more than P.                    *)
(***************************************************************************)
C10_KeepsPrefixesOneDeep ==
    Resolving =>
        \A P \in DOMAIN Resolved.Repos : \A i \in 1..Len(Resolved.Repos[P]) :
            (HasPrefix(call.filter, P) /\ P # call.filter) =>
                /\ QualifiedName(Resolved, P, i) = call.filter
                      => Returned(Resolved, P, i)
                /\ ( /\ HasPrefix(call.filter, QualifiedName(Resolved, P, i))
                     /\ QualifiedName(Resolved, P, i) # call.filter )
                      => (Returned(Resolved, P, i)
                            <=> SegmentCount(call.filter) <= SegmentCount(P) + 1)

\* filter a.b.a dropped the repo b of key a, whose qualified name a.b starts it
C10_Witness ==
    /\ Resolving
    /\ call.filter = "a.b.a"
    /\ "a" \in DOMAIN Resolved.Repos
    /\ \E i \in 1..Len(Resolved.Repos["a"]) :
          /\ QualifiedName(Resolved, "a", i) = "a.b"
          /\ ~Returned(Resolved, "a", i)

\* the number of descriptors in all the lists of the account
RECURSIVE TotalRepos(_, _)
TotalRepos(a, keys) ==
    IF keys = {} THEN 0
    ELSE LET k == CHOOSE x \in keys : TRUE
         IN  Len(a.Repos[k]) + TotalRepos(a, keys \ {k})

(***************************************************************************)
(* C11: with the empty filter GetRepos returns one record per descriptor   *)
(* of the account: as many records as there are descriptors in all lists,  *)
(* every record under a key of Repos, and the records of key P carrying    *)
(* the descriptors of Repos[P], each once and in list order.               *)
(***************************************************************************)
C11_EmptyFilterReturnsAll ==
    (Resolving /\ call.filter = "") =>
        /\ Len(ret) = TotalRepos(Resolved, DOMAIN Resolved.Repos)
        /\ \A j \in 1..Len(ret) : ret[j].Path \in DOMAIN Resolved.Repos
        /\ \A P \in DOMAIN Resolved.Repos : FromPath(P) = Resolved.Repos[P]

\* two keys, one of them with two descriptors, all three returned
C11_Witness ==
    /\ Resolving /\ call.filter = ""
    /\ Cardinality(DOMAIN Resolved.Repos) = 2
    /\ \E P \in DOMAIN Resolved.Repos : Len(Resolved.Repos[P]) = 2
    /\ Len(ret) = 3

\* a list of strings in non-decreasing byte order
IsSorted(strs) ==
    \A i \in 1..(Len(strs) - 1) : strs[i] = strs[i + 1] \/ StringLess(strs[i], strs[i + 1])

DuplicateFree(strs) ==
    \A i \in 1..Len(strs), j \in 1..Len(strs) : strs[i] = strs[j] => i = j

\* every key of the account and every qualified name of a repo at a key
KeysAndQualifiedNames(a) ==
    DOMAIN a.Repos
    \cup { QualifiedName(a, P, i) : <<P, i>> \in
              { <<P, i>> \in (DOMAIN a.Repos) \X (1..MaxRepos + 1) : i <= Len(a.Repos[P]) } }

(***************************************************************************)
(* C13: RepoPaths returns a sorted list without duplicates whose elements  *)
(* are exactly the keys of Repos and the qualified names P.resolvedName    *)
(* of the repos at every key P.                                            *)
(***************************************************************************)
C13_RepoPathsSortedSet ==
    call.op = "RepoPaths" =>
        /\ IsSorted(ret)
        /\ DuplicateFree(ret)
        /\ { ret[i] : i \in 1..Len(ret) } = KeysAndQualifiedNames(cfg.v.Accounts[call.name])

\* the part of C13 that does not depend on the order of the range
C13_RepoPathsSet ==
    call.op = "RepoPaths" =>
        /\ DuplicateFree(ret)
        /\ { ret[i] : i \in 1..Len(ret) } = KeysAndQualifiedNames(cfg.v.Accounts[call.name])

\* the last of the segments the URL falls into at its "/" characters
LastSegment(url) == Split(url, "/")[Len(Split(url, "/"))]

\* the name as the last segment of the URL without one trailing ".git"
LastSegmentName(repo) ==
    IF repo.Name # "" THEN repo.Name ELSE TrimSuffix(LastSegment(repo.URL), ".git")

\* the name as the last segment of the URL once its trailing "/" are dropped,
\* "." for the empty URL and "/" for a URL of "/" only
BaseSegmentName(repo) ==
    IF repo.Name # "" THEN repo.Name
    ELSE IF repo.URL = "" THEN "."
    ELSE IF StripTrailingSlashes(repo.URL) = "" THEN "/"
    ELSE TrimSuffix(LastSegment(StripTrailingSlashes(repo.URL)), ".git")

\* Named(n) is the way a descriptor is given its name; the three places that
\* resolve names agree with it: the records of GetRepos, the qualified
\* names of RepoPaths and the repo a conflict error of Validate names
NamesAgreeWith(Named(_)) ==
    /\ Resolving => \A j \in 1..Len(ret) : ret[j].Name = Named(ret[j].Repo)
    /\ call.op = "RepoPaths" =>
          LET a == cfg.v.Accounts[call.name]
          IN  { ret[i] : i \in 1..Len(ret) } =
                 DOMAIN a.Repos
                 \cup UNION { { P \o "." \o Named(a.Repos[P][i]) : i \in 1..Len(a.Repos[P]) }
                              : P \in DOMAIN a.Repos }
    /\ err.kind = "ConfigConflict" =>
          LET a == config.v.Accounts[err.account]
          IN  /\ \E i \in 1..Len(a.Repos[err.path]) : Named(a.Repos[err.path][i]) = err.repo
              /\ \E K \in DOMAIN a.Repos :
                    StrictDotPrefix(err.path, K) /\ NextSegment(err.path, K) = err.repo

(***************************************************************************)
(* C15, as claimed: the resolved name is the explicit name when that is    *)
(* not empty and otherwise the last "/"-separated segment of the URL       *)
(* without one trailing ".git"; GetRepos, RepoPaths and Validate all name  *)
(* a descriptor that way.                                                  *)
(***************************************************************************)
C15_NameIsLastSegment == NamesAgreeWith(LastSegmentName)

(***************************************************************************)
(* C15, amended: the resolved name is the explicit name when that is not   *)
(* empty and otherwise the last "/"-separated segment of the URL after its *)
(* trailing "/" characters are dropped, without one trailing ".git" ("."   *)
(* for an empty URL); GetRepos, RepoPaths and Validate all name a          *)
(* descriptor that way.                                                    *)
(***************************************************************************)
C15_NameIsBaseSegment == NamesAgreeWith(BaseSegmentName)

\* a record named from a URL that ends in "/", one named from the URL of
\* the example and one with an explicit name
C15_Witness ==
    /\ Resolving
    /\ \E j \in 1..Len(ret) :
          /\ ret[j].Repo = [URL |-> "o/a/", Name |-> ""] /\ ret[j].Name = "a"
    /\ \E j \in 1..Len(ret) :
          \/ ret[j].Repo.URL = "git@github.com:org/my-repo.git" /\ ret[j].Name = "my-repo"
          \/ ret[j].Repo = [URL |-> "o/a.git", Name |-> "b"] /\ ret[j].Name = "b"

\* Root with a leading "~/" replaced by the home directory
ExpandedRoot(root) ==
    IF Len(root) >= 2 /\ SubSeq(root, 1, 2) = "~/"
    THEN Home \o "/" \o SubSeq(root, 3, Len(root))
    ELSE root

\* the logical path with each "." replaced by the directory separator
DirOf(P) == Join(Split(P, "."), "/")

(***************************************************************************)
(* C16: every record returned by GetRepos has as FullPath the join of the  *)
(* expanded Root, the key with "/" for each ".", and the resolved name,    *)
(* where only a leading "~/" of Root is expanded to the home directory.    *)
(***************************************************************************)
C16_FullPathIsJoin ==
    Resolving =>
        \A j \in 1..Len(ret) :
            ret[j].FullPath =
                FilepathJoin(<<ExpandedRoot(Resolved.Root), DirOf(ret[j].Path),
                               BaseSegmentName(ret[j].Repo)>>)

\* the README's example
C16_Witness ==
    /\ Resolving
    /\ Resolved.Root = "~/Projects"
    /\ \E j \in 1..Len(ret) :
          /\ ret[j].Path = "work.backend" /\ ret[j].Name = "api"
          /\ ret[j].FullPath = Home \o "/Projects/work/backend/api"

\* a root that starts with "~" but not with "~/" is left as it is
C16_WitnessBareTilde ==
    /\ Resolving
    /\ Resolved.Root = "~"
    /\ \E j \in 1..Len(ret) : ret[j].FullPath = "~/a/b/a"

(***************************************************************************)
(* C17: Validate does not change the account it checks: whether it returns *)
(* nil or a conflict error, every account of the Config still has the      *)
(* Repos map (keys, lists, descriptors), the Root and the Default the      *)
(* parser gave it.                                                         *)
(***************************************************************************)
C17_ValidateKeepsAccount ==
    config.ok =>
        /\ config.v \in BuildConfigs(file.accounts.entries)
        /\ cfg.ok => cfg.v = config.v

\* Validate has returned a conflict error for an account with a nested key
C17_Witness ==
    /\ pc = "failed"
    /\ err.kind = "ConfigConflict"
    /\ config.ok
    /\ \E K \in DOMAIN config.v.Accounts[err.account].Repos : SegmentCount(K) >= 2
    /\ config.v.Accounts[err.account] \in ParseAccount(file.accounts.entries[err.account])

(***************************************************************************)
(* C18: a repo entry without a string url does not fail the parser, and no *)
(* Config that LoadFromPath returns holds a descriptor with an empty URL.  *)
(***************************************************************************)
C18_NoEmptyUrlLoaded ==
    cfg.ok =>
        \A n \in DOMAIN cfg.v.Accounts : \A P \in DOMAIN cfg.v.Accounts[n].Repos :
            \A i \in 1..Len(cfg.v.Accounts[n].Repos[P]) :
                cfg.v.Accounts[n].Repos[P][i].URL # ""

(***************************************************************************)
(* C19: a Config that LoadFromPath returns has one Account for every entry *)
(* of the accounts table; an entry that is not a table fails the load.     *)
(***************************************************************************)
C19_EveryEntryAnAccount ==
    cfg.ok => DOMAIN cfg.v.Accounts = DOMAIN file.accounts.entries

\* a status or sync command that resolved its account
Listing == call.op \in {"status", "sync"} /\ call.name # ""

\* the account the command works on
CommandAccount == cfg.v.Accounts[call.name]

\* no key of the account passes the two-sided prefix test against the filter
NoKeyPasses(a, pathFilter) ==
    \A P \in DOMAIN a.Repos :
        ~(pathFilter = "" \/ HasPrefix(P, pathFilter) \/ HasPrefix(pathFilter, P))

(***************************************************************************)
(* C12: a filter that no key passes is not an error: GetRepos returns the  *)
(* empty list, and status and sync print one "no repos" message, return    *)
(* nil and make no call to package git.                                    *)
(***************************************************************************)
C12_NoMatchIsNotAnError ==
    /\ (Resolving /\ NoKeyPasses(Resolved, call.filter)) => ret = <<>>
    /\ (Listing /\ NoKeyPasses(CommandAccount, call.filter)) =>
          /\ Len(out) = 1 /\ out[1].kind = "norepos"
          /\ ret = NoErr
          /\ gitlog = <<>>

\* sync with a filter that no key of a two-key account passes, on a disk
\* where repos of the account exist
C12_Witness ==
    /\ call.op = "sync" /\ call.name # "" /\ call.filter = "c"
    /\ Cardinality(DOMAIN CommandAccount.Repos) = 2
    /\ disk # {}
    /\ out = <<NoReposLine("c", call.name)>>
    /\ ret = NoErr /\ gitlog = <<>>

\* the repos, paths and account names the command emitted, in the order it
\* emitted them: status rows, sync progress lines, completion candidates
Emitted ==
    LET lines == SelectSeq(out, LAMBDA l : l.kind \in {"row", "clone", "fetch", "skip", "candidate"})
    IN  [i \in 1..Len(lines) |-> lines[i].text]

(***************************************************************************)
(* C14: what a command displays or enumerates (status rows, sync progress  *)
(* lines in processing order, path candidates, account-name candidates)    *)
(* comes out in lexicographic order.                                       *)
(***************************************************************************)
C14_EmittedInOrder == IsSorted(Emitted)

\* the commands that sort before they emit
C14_SortingCommandsInOrder ==
    call.op \in {"status", "complete-path", "complete-account"} => IsSorted(Emitted)

\* the call to package git that sync made right after its k-th
NextGitCall(k) == IF k < Len(gitlog) THEN gitlog[k + 1] ELSE GitCall("none", "", FALSE)

(***************************************************************************)
(* C20: sync clones only what is missing: every clone follows a git.Exists *)
(* of the same path that answered no; a repo that exists is fetched when   *)
(* --fetch is set and only then, and without the flag no git operation     *)
(* follows for it.  git.Exists answers for the disk as it is at that       *)
(* point.                                                                  *)
(***************************************************************************)
C20_SyncClonesOnlyMissing ==
    call.op = "sync" =>
        \A k \in 1..Len(gitlog) :
            /\ gitlog[k].op \in {"Exists", "Clone", "Fetch"}
            /\ gitlog[k].op = "Clone" =>
                  k > 1 /\ gitlog[k - 1] = GitCall("Exists", gitlog[k].path, FALSE)
            /\ gitlog[k].op = "Fetch" =>
                  call.fetch /\ k > 1 /\ gitlog[k - 1] = GitCall("Exists", gitlog[k].path, TRUE)
            /\ (gitlog[k].op = "Exists" /\ gitlog[k].ok) =>
                  /\ gitlog[k].path \in disk
                  /\ IF call.fetch
                     THEN NextGitCall(k).op = "Fetch" /\ NextGitCall(k).path = gitlog[k].path
                     ELSE NextGitCall(k).op \in {"Exists", "none"}
            /\ (gitlog[k].op = "Exists" /\ ~gitlog[k].ok) =>
                  /\ NextGitCall(k).op = "Clone" /\ NextGitCall(k).path = gitlog[k].path
                  /\ gitlog[k].path \in disk =>
                        \E j \in (k + 1)..Len(gitlog) :
                            gitlog[j] = GitCall("Clone", gitlog[k].path, TRUE)

\* a sync without --fetch that cloned one repo and skipped another
C20_Witness ==
    /\ call.op = "sync" /\ ~call.fetch
    /\ \E k \in 1..Len(gitlog) : gitlog[k].op = "Clone" /\ gitlog[k].ok
    /\ \E k \in 1..Len(gitlog) : gitlog[k].op = "Exists" /\ gitlog[k].ok
    /\ \E i \in 1..Len(out) : out[i].kind = "skip"

\* a sync with --fetch that fetched an existing repo
C20_WitnessFetch ==
    /\ call.op = "sync" /\ call.fetch
    /\ \E k \in 1..Len(gitlog) : gitlog[k].op = "Fetch" /\ gitlog[k].ok

\* a repo found to exist because the same sync cloned its path just before
C20_WitnessClonedTwice ==
    /\ call.op = "sync"
    /\ \E k \in 1..Len(gitlog) : \E j \in (k + 1)..Len(gitlog) :
          /\ gitlog[k] = GitCall("Exists", gitlog[j].path, FALSE)
          /\ gitlog[j] = GitCall("Exists", gitlog[k].path, TRUE)

(***************************************************************************)
(* C21: init does not overwrite a configuration: on a config path where a  *)
(* file exists it returns an error and leaves the file as it is; the file  *)
(* changes only by an init that found no file there, and the starter       *)
(* config is what a successful init leaves.                                *)
(***************************************************************************)
C21_InitNeverOverwrites ==
    [][ /\ (call'.op = "init" /\ call.op # "init" /\ file.exists) =>
              (file' = file /\ ret'.kind = "ConfigExists")
        /\ file' # file => (~file.exists /\ call'.op = "init")
        /\ (call'.op = "init" /\ call.op # "init" /\ ret' = NoErr) =>
              (~file.exists /\ file' = StarterFile) ]_vars

\* init has run on a path that holds a configuration with an account
C21_Witness ==
    /\ call.op = "init"
    /\ ret = [kind |-> "ConfigExists"]
    /\ file.exists /\ file.toml /\ DOMAIN file.accounts.entries # {}
    /\ out = <<>>

\* init has written the starter config where no file was
C21_WitnessWritten ==
    /\ call.op = "init" /\ ret = NoErr /\ file = StarterFile

(***************************************************************************)
(* C22: GetAccount(name) returns the account stored under that name when   *)
(* the name is a key of Accounts, and otherwise no account and an          *)
(* AccountNotFound error, also when a default account exists; the Config   *)
(* stays as it was loaded.                                                 *)
(***************************************************************************)
C22_GetAccountExact ==
    call.op = "GetAccount" =>
        /\ IF call.name \in DOMAIN cfg.v.Accounts
           THEN ret.err = NoErr /\ ret.account = Is(cfg.v.Accounts[call.name])
           ELSE ret.err = [kind |-> "AccountNotFound", name |-> call.name]
                /\ ret.account = Nil
        /\ cfg = config

\* an unknown name asked of a Config that has a default account
C22_Witness ==
    /\ call.op = "GetAccount"
    /\ call.name \notin DOMAIN cfg.v.Accounts
    /\ \E n \in DOMAIN cfg.v.Accounts : cfg.v.Accounts[n].Default
    /\ ret.err.kind = "AccountNotFound" /\ ret.account = Nil

\* a known name asked of a Config with several accounts
C22_WitnessFound ==
    /\ call.op = "GetAccount"
    /\ Cardinality(DOMAIN cfg.v.Accounts) >= 2
    /\ ret.err = NoErr /\ ret.account = Is(cfg.v.Accounts[call.name])
    /\ ~cfg.v.Accounts[call.name].Default

(***************************************************************************)
(* C23: where key P is a prefix of the filter and the filter has more than *)
(* one segment beyond P, GetRepos returns no repo at P whose qualified     *)
(* name does not start with the filter.                                    *)
(***************************************************************************)
C23_DeepFilterExcludes ==
    Resolving =>
        \A P \in DOMAIN Resolved.Repos : \A i \in 1..Len(Resolved.Repos[P]) :
            ( /\ HasPrefix(call.filter, P)
              /\ SegmentCount(call.filter) > SegmentCount(P) + 1
              /\ ~HasPrefix(QualifiedName(Resolved, P, i), call.filter) )
            => ~Returned(Resolved, P, i)

\* filter a.b.a left out the repo a of key a and returned the repo a of key a.b
C23_Witness ==
    /\ Resolving
    /\ call.filter = "a.b.a"
    /\ {"a", "a.b"} \subseteq DOMAIN Resolved.Repos
    /\ \E i \in 1..Len(Resolved.Repos["a"]) :
          QualifiedName(Resolved, "a", i) = "a.a" /\ ~Returned(Resolved, "a", i)
    /\ \E j \in 1..Len(ret) : ret[j].Path = "a.b" /\ ret[j].Name = "a"

(***************************************************************************)
(* C24: a Config that LoadFromPath returned has at least one account, and  *)
(* DefaultAccount fails on it only when it has several accounts and none   *)
(* of them is flagged default.                                             *)
(***************************************************************************)
C24_LoadedHasAnAccount ==
    cfg.ok =>
        /\ DOMAIN cfg.v.Accounts # {}
        /\ (call.op = "DefaultAccount" /\ ret.err # NoErr) =>
              /\ Cardinality(DOMAIN cfg.v.Accounts) >= 2
              /\ \A n \in DOMAIN cfg.v.Accounts : ~cfg.v.Accounts[n].Default

\* the segments of p are the first segments of q
SegmentPrefix(p, q) == IsSeqPrefix(Split(p, "."), Split(q, "."))

(***************************************************************************)
(* C25: with a non-empty filter GetRepos returns a repo at key P only if   *)
(* the filter is a segment-wise prefix of P.resolvedName or P is a         *)
(* segment-wise prefix of the filter.                                      *)
(***************************************************************************)
C25_SegmentBoundaries ==
    (Resolving /\ call.filter # "") =>
        \A j \in 1..Len(ret) :
            \/ SegmentPrefix(call.filter, ret[j].Path \o "." \o ret[j].Name)
            \/ SegmentPrefix(ret[j].Path, call.filter)

(***************************************************************************)
(* C26: in an account that Validate accepted no two repo entries resolve   *)
(* to the same filesystem path: the records GetRepos returns for the empty *)
(* filter have pairwise different FullPath.                                *)
(***************************************************************************)
C26_FullPathsDistinct ==
    (Resolving /\ call.filter = "") =>
        \A i \in 1..Len(ret), j \in 1..Len(ret) :
            ret[i].FullPath = ret[j].FullPath => i = j

\* how many elements of the sequence satisfy Test
CountOf(seq, Test(_)) == Len(SelectSeq(seq, Test))

\* the git.Exists calls of the command, in order
Probes == SelectSeq(gitlog, LAMBDA g : g.op = "Exists")

\* the progress lines of sync, in order
ProgressLines == SelectSeq(out, LAMBDA l : l.kind \in {"clone", "fetch", "skip"})

(***************************************************************************)
(* C27: sync handles every resolved repo once, in the order of the list,   *)
(* whether or not an earlier clone or fetch failed, and counts it in one   *)
(* counter: cloned, fetched and failed count the git operations that       *)
(* succeeded and failed, skipped the repos left alone, and the four add up *)
(* to the number of resolved repos.                                        *)
(***************************************************************************)
C27_EveryRepoCountedOnce ==
    (call.op = "sync" /\ call.name # "") =>
        \E order \in Orders(DOMAIN CommandAccount.Repos) :
            LET repos == GetRepos(CommandAccount, call.filter, order)
            IN  /\ Len(Probes) = Len(repos)
                /\ \A i \in 1..Len(repos) : Probes[i].path = repos[i].FullPath
                /\ Len(ProgressLines) = Len(repos)
                /\ \A i \in 1..Len(repos) :
                      ProgressLines[i].text = repos[i].Path \o "." \o repos[i].Name
                /\ counters.cloned = CountOf(gitlog, LAMBDA g : g.op = "Clone" /\ g.ok)
                /\ counters.fetched = CountOf(gitlog, LAMBDA g : g.op = "Fetch" /\ g.ok)
                /\ counters.failed = CountOf(gitlog, LAMBDA g : g.op \in {"Clone", "Fetch"} /\ ~g.ok)
                /\ counters.skipped = CountOf(out, LAMBDA l : l.kind = "skip")
                /\ counters.cloned + counters.fetched + counters.skipped + counters.failed
                      = Len(repos)

\* the clone of the first repo failed and the second was cloned, a third skipped
C27_Witness ==
    /\ call.op = "sync" /\ call.name # ""
    /\ Len(gitlog) >= 4
    /\ gitlog[2].op = "Clone" /\ ~gitlog[2].ok
    /\ gitlog[4].op = "Clone" /\ gitlog[4].ok
    /\ counters.failed = 1 /\ counters.cloned = 1 /\ counters.skipped = 1

\* what GetRepos returns for the empty filter, in one of its orders
AllRecords ==
    GetRepos(Resolved, "", CHOOSE o \in Orders(DOMAIN Resolved.Repos) : TRUE)

(***************************************************************************)
(* C28: every record GetRepos returns is drawn from the tree: its Path is  *)
(* a key of Repos, its Repo an element of the list at that key, its Name   *)
(* the resolved name of that repo; no record is returned more often than   *)
(* the empty filter returns it; and the account stays as it was loaded.    *)
(***************************************************************************)
C28_RecordsDrawnFromTree ==
    Resolving =>
        /\ \A j \in 1..Len(ret) :
              /\ ret[j].Path \in DOMAIN Resolved.Repos
              /\ \E i \in 1..Len(Resolved.Repos[ret[j].Path]) :
                    Resolved.Repos[ret[j].Path][i] = ret[j].Repo
              /\ ret[j].Name = BaseSegmentName(ret[j].Repo)
              /\ CountOf(ret, LAMBDA r : r = ret[j]) <= CountOf(AllRecords, LAMBDA r : r = ret[j])
        /\ cfg = config

\* a filter that returned some of the records of the account, not all
C28_Witness ==
    /\ Resolving /\ call.filter # ""
    /\ Len(ret) >= 2
    /\ Len(ret) < TotalRepos(Resolved, DOMAIN Resolved.Repos)
    /\ \E j \in 1..Len(ret) : SegmentCount(ret[j].Path) = 2

\* the keys on the way to every array are non-empty and without ".", and "/"
\* is only the last key of a sequence of two or more
CleanKeys(node) ==
    \A l \in Leaves(node, <<>>) :
        \A i \in 1..Len(l[1]) :
            /\ l[1][i] # ""
            /\ ~Contains(l[1][i], ".")
            /\ Contains(l[1][i], "/") => (l[1][i] = "/" /\ i = Len(l[1]) /\ i >= 2)

(***************************************************************************)
(* C29: in a repos tree with clean keys every array is stored under a key  *)
(* of its own, with its own descriptors, so no list overwrites another,    *)
(* and the parser builds the same map whatever the order of its ranges.    *)
(***************************************************************************)
C29_CleanTreeNoOverwrite ==
    config.ok =>
        \A n \in DOMAIN config.v.Accounts :
            (FileRepos(n).kind = "table" /\ CleanKeys(FileRepos(n))) =>
                LET leaves == Leaves(FileRepos(n), <<>>)
                    repos  == config.v.Accounts[n].Repos
                IN  /\ \A l \in leaves :
                          /\ RuleKey(l[1]) \in DOMAIN repos
                          /\ repos[RuleKey(l[1])] = Descriptors(l[2])
                    /\ Cardinality(DOMAIN repos) = Cardinality(leaves)
                    /\ Cardinality(ParseAccount(file.accounts.entries[n])) = 1

\* a.b."/" = [u1, u2] and a."/" = [u1] stored as a.b and a
C29_Witness ==
    /\ config.ok
    /\ "x" \in DOMAIN config.v.Accounts
    /\ CleanKeys(FileRepos("x"))
    /\ Leaves(FileRepos("x"), <<>>) =
          { << <<"a", "b", "/">>, <<ItemA, ItemB>> >>, << <<"a", "/">>, <<ItemA>> >> }
    /\ DOMAIN config.v.Accounts["x"].Repos = {"a", "a.b"}
    /\ Len(config.v.Accounts["x"].Repos["a.b"]) = 2
    /\ Len(config.v.Accounts["x"].Repos["a"]) = 1

\* the rows of the status table
Rows == SelectSeq(out, LAMBDA l : l.kind = "row")

(***************************************************************************)
(* C30: for every column width of 0 or more truncate does not fail and     *)
(* gives a cell of at most that many characters, the string itself when    *)
(* it is not longer than the width.                                        *)
(***************************************************************************)
C30_TruncateNeverFails ==
    (call.op = "status" /\ call.pathWidth >= 0 /\ call.branchWidth >= 0) =>
        /\ ret # [kind |-> "panic"]
        /\ \A i \in 1..Len(Rows) :
              /\ Len(Rows[i].path) <= call.pathWidth
              /\ Len(Rows[i].text) <= call.pathWidth => Rows[i].path = Rows[i].text
              /\ Len(Rows[i].branch) <= call.branchWidth

\* the part of C30 that holds for widths of 1 or more
C30_TruncateFromOne ==
    (call.op = "status" /\ call.pathWidth >= 1 /\ call.branchWidth >= 1) =>
        /\ ret # [kind |-> "panic"]
        /\ \A i \in 1..Len(Rows) :
              /\ Len(Rows[i].path) <= call.pathWidth
              /\ Len(Rows[i].text) <= call.pathWidth => Rows[i].path = Rows[i].text
              /\ Len(Rows[i].branch) <= call.branchWidth

====
